---- MODULE Spec2Model ----
(***************************************************************************)
(* A model of GraphBLAS/Source/GB_msort_1.c: the parallel merge sort of an *)
(* array of integers.  The arrays A and W are sequences (C index i is TLA+ *)
(* index i+1), the OpenMP tasks of one call form a tree of frames numbered by *)
(* their place in the tree,   and every function of the file is either a    *)
(* pure operator (the merges, the pivot search, the quarter sizes) or an   *)
(* action of a frame (the fork, the join, the leaf work).                  *)
(***************************************************************************)
EXTENDS Integers, Sequences, FiniteSets, TLC

\* ------------------------------------------------------------------ bounds
MaxN == 4           \* every array of length 0..MaxN is sorted
MaxVal == 1         \* with keys 0..MaxVal
MaxThreads == 2     \* the requested number of threads is 0..MaxThreads
MaxDepth == 5       \* no frame this deep forks (none gets there)
MaxRun == 3         \* the merges are tried on runs of length 0..MaxRun
MaxKey == 2         \* with keys 0..MaxKey
MaxSmaller == 4     \* the pivot search is tried on runs of length 0..MaxSmaller
MaxQuarters == 64   \* the quarter sizes are tried on n in 0..MaxQuarters
MaxThreshold == 4   \* the dispatch is tried with a base-case size of 1..MaxThreshold

\* The base-case size of GB_msort_1.h, scaled down so that arrays of MaxN
\* entries are split.  Every value >= 3 leaves the recursion well founded.
GB_BASECASE == 3

Values == 0..MaxVal
Keys == 0..MaxKey
\* What an entry of W holds before the call writes it: no key of the input.
Garbage == MaxVal + MaxKey + 1

VARIABLES
    A,              \* the array being sorted (GB_msort_1: A_0 [0..n-1])
    W,              \* the workspace (GB_msort_1: W_0 [0..n-1])
    A0,             \* A as it was when the call was made
    nthreads,       \* the requested number of threads
    ompTasks,       \* whether the runtime supports tasks (GB_MSORT_NTHREADS)
    callerThreads,  \* GB_OPENMP_GET_NUM_THREADS as the caller sees it
    pc,             \* where the outermost call is: "call", "sorting", "returned"
    regions,        \* how many parallel regions the call has opened
    team,           \* the threads of the region the tasks run in
    spawned,        \* how many GB_TASK the call has executed
    tasks,          \* the live frames: number -> frame
    arg,            \* the arguments, when one function is called on its own
    ret             \* and what it returned

vars == <<A, W, A0, nthreads, ompTasks, callerThreads, pc, regions, team,
          spawned, tasks, arg, ret>>

\* ----------------------------------------------------------------- helpers
At(X, i) == X[i + 1]
Slice(X, off, n) == SubSeq(X, off + 1, off + n)
Store(X, off, Y) ==
    [i \in 1..Len(X) |-> IF i > off /\ i <= off + Len(Y) THEN Y[i - off] ELSE X[i]]
\* the entries of the two arrays, as numbers: A [i] is i, W [i] is -(i+1)
Loc(arr, i) == IF arr = "A" THEN i ELSE -(i + 1)
Locs(arr, off, n) == {Loc(arr, i) : i \in off..(off + n - 1)}
IsSorted(X) == \A i \in 1..(Len(X) - 1) : X[i] <= X[i + 1]
Count(X, v) == Cardinality({i \in 1..Len(X) : X[i] = v})
Range(X) == {X[i] : i \in 1..Len(X)}
SameBag(X, Y) ==
    /\ Len(X) = Len(Y)
    /\ \A v \in Range(X) \cup Range(Y) : Count(X, v) = Count(Y, v)
SortedRuns(n) == {X \in UNION {[1..k -> Keys] : k \in 0..n} : IsSorted(X)}

\* ------------------------------------------------------------ GB_msort_1.h
GB_lt_1(X, a, Y, b) == At(X, a) < At(Y, b)

GB_MSORT_NTHREADS(nth) == IF ompTasks THEN nth ELSE 1

RECURSIVE InsertSorted(_, _)
InsertSorted(X, v) ==
    IF X = <<>> THEN <<v>>
    ELSE IF v <= Head(X) THEN <<v>> \o X
    ELSE <<Head(X)>> \o InsertSorted(Tail(X), v)

\* the base-case sort: the argument in ascending order
RECURSIVE GB_qsort_1a(_)
GB_qsort_1a(X) ==
    IF X = <<>> THEN <<>> ELSE InsertSorted(GB_qsort_1a(Tail(X)), Head(X))

\* ------------------------------------------------- GB_merge_sequential_1
RECURSIVE MergeLoop(_, _, _, _, _)
MergeLoop(S, Left, Right, pleft, pright) ==
    IF pleft < Len(Left) /\ pright < Len(Right)
    THEN IF GB_lt_1(Left, pleft, Right, pright)
         THEN MergeLoop(Append(S, At(Left, pleft)), Left, Right, pleft + 1, pright)
         ELSE MergeLoop(Append(S, At(Right, pright)), Left, Right, pleft, pright + 1)
    ELSE IF pleft < Len(Left)
         THEN S \o Slice(Left, pleft, Len(Left) - pleft)
    ELSE IF pright < Len(Right)
         THEN S \o Slice(Right, pright, Len(Right) - pright)
    ELSE S

\* the merge with the comparison the wrong way round
RECURSIVE MergeLoop_gt(_, _, _, _, _)
MergeLoop_gt(S, Left, Right, pleft, pright) ==
    IF pleft < Len(Left) /\ pright < Len(Right)
    THEN IF GB_lt_1(Right, pright, Left, pleft)
         THEN MergeLoop_gt(Append(S, At(Left, pleft)), Left, Right, pleft + 1, pright)
         ELSE MergeLoop_gt(Append(S, At(Right, pright)), Left, Right, pleft, pright + 1)
    ELSE IF pleft < Len(Left)
         THEN S \o Slice(Left, pleft, Len(Left) - pleft)
    ELSE IF pright < Len(Right)
         THEN S \o Slice(Right, pright, Len(Right) - pright)
    ELSE S

GB_merge_sequential_1_gt(Left, Right) == MergeLoop_gt(<<>>, Left, Right, 0, 0)

GB_merge_sequential_1(Left, Right) == MergeLoop(<<>>, Left, Right, 0, 0)

\* ------------------------------------- GB_merge_parallel_1: the pivot search
\* The binary search of Smaller [0..nsmaller-1] for the Pivot: the values of
\* pleft and pright when the loop exits, and the indices of Smaller it read.
RECURSIVE SearchLoop(_, _, _, _, _)
SearchLoop(Smaller, Pivot, pleft, pright, probes) ==
    IF pleft < pright
    THEN LET pmiddle == (pleft + pright) \div 2
         IN  IF GB_lt_1(Smaller, pmiddle, <<Pivot>>, 0)
             THEN SearchLoop(Smaller, Pivot, pmiddle + 1, pright, probes \cup {pmiddle})
             ELSE SearchLoop(Smaller, Pivot, pleft, pmiddle, probes \cup {pmiddle})
    ELSE [pleft |-> pleft, pright |-> pright, probes |-> probes]

\* the search with <= for <
RECURSIVE SearchLoop_le(_, _, _, _, _)
SearchLoop_le(Smaller, Pivot, pleft, pright, probes) ==
    IF pleft < pright
    THEN LET pmiddle == (pleft + pright) \div 2
         IN  IF At(Smaller, pmiddle) <= Pivot
             THEN SearchLoop_le(Smaller, Pivot, pmiddle + 1, pright, probes \cup {pmiddle})
             ELSE SearchLoop_le(Smaller, Pivot, pleft, pmiddle, probes \cup {pmiddle})
    ELSE [pleft |-> pleft, pright |-> pright, probes |-> probes]

BinarySearch_le(Smaller, Pivot) ==
    SearchLoop_le(Smaller, Pivot, 0, Len(Smaller) - 1, {})

\* the search that drops pmiddle from the upper part: pright = pmiddle - 1
RECURSIVE SearchLoop_dec(_, _, _, _, _)
SearchLoop_dec(Smaller, Pivot, pleft, pright, probes) ==
    IF pleft < pright
    THEN LET pmiddle == (pleft + pright) \div 2
         IN  IF GB_lt_1(Smaller, pmiddle, <<Pivot>>, 0)
             THEN SearchLoop_dec(Smaller, Pivot, pmiddle + 1, pright, probes \cup {pmiddle})
             ELSE SearchLoop_dec(Smaller, Pivot, pleft, pmiddle - 1, probes \cup {pmiddle})
    ELSE [pleft |-> pleft, pright |-> pright, probes |-> probes]

BinarySearch_dec(Smaller, Pivot) ==
    SearchLoop_dec(Smaller, Pivot, 0, Len(Smaller) - 1, {})

BinarySearch(Smaller, Pivot) ==
    SearchLoop(Smaller, Pivot, 0, Len(Smaller) - 1, {})

\* the search without its adjustment step
PivotSearch_noadjust(Smaller, Pivot) ==
    LET b == BinarySearch(Smaller, Pivot)
    IN  [ pleft  |-> b.pleft,
          pright |-> b.pright,
          found  |-> b.pleft = b.pright /\ At(Smaller, b.pleft) = Pivot,
          loop   |-> <<b.pleft, b.pright>>,
          probes |-> b.probes \cup (IF b.pleft = b.pright THEN {b.pleft} ELSE {}) ]

\* found, and pleft and pright as the adjustment step leaves them
PivotSearch(Smaller, Pivot) ==
    LET b == BinarySearch(Smaller, Pivot)
        found == b.pleft = b.pright /\ At(Smaller, b.pleft) = Pivot
        adjust == ~found /\ b.pleft = b.pright
        less == GB_lt_1(Smaller, b.pleft, <<Pivot>>, 0)
    IN  [ pleft  |-> IF adjust /\ less THEN b.pleft + 1 ELSE b.pleft,
          pright |-> IF adjust /\ ~less THEN b.pright + 1 ELSE b.pright,
          found  |-> found,
          loop   |-> <<b.pleft, b.pright>>,
          probes |-> b.probes \cup (IF b.pleft = b.pright THEN {b.pleft} ELSE {}) ]

\* the split that halves nothing: all of Bigger goes to the second task
ParallelSplit_nohalf(S_0, Bigger_0, nbigger, Smaller_0, nsmaller, pleft) ==
    << [s |-> S_0, l |-> Bigger_0, nl |-> 0,
        r |-> Smaller_0, nr |-> pleft],
       [s |-> S_0 + pleft, l |-> Bigger_0, nl |-> nbigger,
        r |-> Smaller_0 + pleft, nr |-> nsmaller - pleft] >>

\* the split with S_task1_0 = S_0 + nhalf
ParallelSplit_overlap(S_0, Bigger_0, nbigger, Smaller_0, nsmaller, pleft) ==
    LET nhalf == nbigger \div 2
    IN  << [s |-> S_0, l |-> Bigger_0, nl |-> nhalf,
            r |-> Smaller_0, nr |-> pleft],
           [s |-> S_0 + nhalf, l |-> Bigger_0 + nhalf, nl |-> nbigger - nhalf,
            r |-> Smaller_0 + pleft, nr |-> nsmaller - pleft] >>

\* the split with Right_task1_0 = Smaller_0
ParallelSplit_smaller0(S_0, Bigger_0, nbigger, Smaller_0, nsmaller, pleft) ==
    LET nhalf == nbigger \div 2
    IN  << [s |-> S_0, l |-> Bigger_0, nl |-> nhalf,
            r |-> Smaller_0, nr |-> pleft],
           [s |-> S_0 + nhalf + pleft, l |-> Bigger_0 + nhalf, nl |-> nbigger - nhalf,
            r |-> Smaller_0, nr |-> nsmaller - pleft] >>

\* The two sub-merges of a parallel merge whose output starts at S_0, whose
\* Bigger starts at Bigger_0 and whose Smaller starts at Smaller_0.
ParallelSplit(S_0, Bigger_0, nbigger, Smaller_0, nsmaller, pleft) ==
    LET nhalf == nbigger \div 2
    IN  << [s |-> S_0, l |-> Bigger_0, nl |-> nhalf,
            r |-> Smaller_0, nr |-> pleft],
           [s |-> S_0 + nhalf + pleft, l |-> Bigger_0 + nhalf, nl |-> nbigger - nhalf,
            r |-> Smaller_0 + pleft, nr |-> nsmaller - pleft] >>

\* ------------------------------------------- GB_mergesort_1: the quarters
\* the quarters with n34 = n12
Quarters_even(n) ==
    LET n12 == n \div 2
        n34 == n12
        n1 == n12 \div 2
        n2 == n12 - n1
        n3 == n34 \div 2
        n4 == n34 - n3
        n123 == n12 + n3
    IN  [ n12 |-> n12, n34 |-> n34, n1 |-> n1, n2 |-> n2, n3 |-> n3, n4 |-> n4,
          n123 |-> n123 ]

Quarters(n) ==
    LET n12 == n \div 2
        n34 == n - n12
        n1 == n12 \div 2
        n2 == n12 - n1
        n3 == n34 \div 2
        n4 == n34 - n3
        n123 == n12 + n3
    IN  [ n12 |-> n12, n34 |-> n34, n1 |-> n1, n2 |-> n2, n3 |-> n3, n4 |-> n4,
          n123 |-> n123 ]

\* ------------------------------------------------------------------ frames
\* A frame is one activation: kind "sort" is GB_mergesort_1 (A_0 + off, W_0 +
\* off, n); kind "select" is a GB_merge_select_1 not yet started; "seq" and
\* "par" are the merge it has called, writing dst [s ..], reading the other
\* array at l (Left or Bigger, nl entries) and r (Right or Smaller, nr
\* entries).  st is "ready" (spawned), "run" (on a thread), "wait" (at
\* GB_TASK_WAIT) or "done"; ph names the wait.  rd and wr are the entries
\* the frame, and the tasks it has joined, have read and written.
Frame(kind, st, off, n, dst, m) ==
    [ kind |-> kind, st |-> st, ph |-> "-", off |-> off, n |-> n, dst |-> dst,
      s |-> m.s, l |-> m.l, nl |-> m.nl, r |-> m.r, nr |-> m.nr,
      rd |-> {}, wr |-> {} ]

NoMerge == [s |-> 0, l |-> 0, nl |-> 0, r |-> 0, nr |-> 0]
SortFrame(st, off, n) == Frame("sort", st, off, n, "A", NoMerge)
SelectFrame(dst, m) == Frame("select", "ready", 0, 0, dst, m)

Src(dst) == IF dst = "A" THEN "W" ELSE "A"
Mem(arr) == IF arr = "A" THEN A ELSE W

\* Frames are numbered by their place in the task tree: the outermost frame
\* is 0 and the k-th task that frame t spawns at a fork is Fanout * t + k.
Fanout == 4
Root == 0
Child(t, k) == Fanout * t + k
Parent(c) == (c - 1) \div Fanout
RECURSIVE Depth(_)
Depth(t) == IF t = Root THEN 0 ELSE 1 + Depth(Parent(t))
RECURSIVE IsAncestor(_, _)
IsAncestor(p, q) == q > p /\ (Parent(q) = p \/ IsAncestor(p, Parent(q)))
Related(p, q) == p = q \/ IsAncestor(p, q) \/ IsAncestor(q, p)
Children(t) == {c \in DOMAIN tasks : c > 0 /\ Parent(c) = t}
Running == {t \in DOMAIN tasks : tasks[t].st = "run"}
SlotFree == Cardinality(Running) < team
Joinable(t) ==
    /\ tasks[t].st = "wait"
    /\ \A c \in Children(t) : tasks[c].st = "done"
    /\ SlotFree

\* the frames after t becomes f, its joined children go and kids are spawned
Fork(t, f, kids) ==
    LET fresh == {Child(t, k) : k \in DOMAIN kids}
    IN  [ p \in ((DOMAIN tasks \ Children(t)) \cup fresh) |->
            IF p = t THEN f
            ELSE IF p \in fresh THEN kids[p - Fanout * t]
            ELSE tasks[p] ]

\* t with the reads and writes of the children it joins
Joined(t) ==
    [ tasks[t] EXCEPT
        !.rd = @ \cup UNION {tasks[c].rd : c \in Children(t)},
        !.wr = @ \cup UNION {tasks[c].wr : c \in Children(t)} ]

\* ------------------------------------------------------ GB_merge_select_1
\* the dispatch that never swaps: Left is always passed as Bigger
GB_merge_select_1_noswap(f) ==
    IF f.nl + f.nr < GB_BASECASE
    THEN [f EXCEPT !.kind = "seq", !.st = "run"]
    ELSE [f EXCEPT !.kind = "par", !.st = "run"]

\* The merge a GB_merge_select_1 frame calls: the sequential merge of Left
\* and Right, or the parallel merge with the longer of the two first.
GB_merge_select_1(f) ==
    IF f.nl + f.nr < GB_BASECASE
    THEN [f EXCEPT !.kind = "seq", !.st = "run"]
    ELSE IF f.nl >= f.nr
    THEN [f EXCEPT !.kind = "par", !.st = "run"]
    ELSE [f EXCEPT !.kind = "par", !.st = "run",
                   !.l = f.r, !.nl = f.nr, !.r = f.l, !.nr = f.nl]

\* --------------------------------------------------------- GB_mergesort_1
\* the quarters with one entry too many in the 4th
QuarterTasks_past(off, n) ==
    LET q == Quarters(n)
    IN  << SortFrame("ready", off, q.n1),
           SortFrame("ready", off + q.n1, q.n2),
           SortFrame("ready", off + q.n12, q.n3),
           SortFrame("ready", off + q.n123, q.n4 + 1) >>

\* GB_TASK (GB_mergesort_1, ...) for the four quarters of A_0 + off
QuarterTasks(off, n) ==
    LET q == Quarters(n)
    IN  << SortFrame("ready", off, q.n1),
           SortFrame("ready", off + q.n1, q.n2),
           SortFrame("ready", off + q.n12, q.n3),
           SortFrame("ready", off + q.n123, q.n4) >>

\* the pair merges with both outputs at W_1st0
PairTasks_sameW(off, n) ==
    LET q == Quarters(n)
    IN  << SelectFrame("W", [s |-> off, l |-> off, nl |-> q.n1,
                             r |-> off + q.n1, nr |-> q.n2]),
           SelectFrame("W", [s |-> off, l |-> off + q.n12, nl |-> q.n3,
                             r |-> off + q.n123, nr |-> q.n4]) >>

\* the pair merges with the second one leaving the 4th quarter out
PairTasks_short(off, n) ==
    LET q == Quarters(n)
    IN  << SelectFrame("W", [s |-> off, l |-> off, nl |-> q.n1,
                             r |-> off + q.n1, nr |-> q.n2]),
           SelectFrame("W", [s |-> off + q.n12, l |-> off + q.n12, nl |-> q.n3,
                             r |-> off + q.n123, nr |-> 0]) >>

\* GB_TASK (GB_merge_select_1, ...) for the two pairs of quarters, into W
PairTasks(off, n) ==
    LET q == Quarters(n)
    IN  << SelectFrame("W", [s |-> off, l |-> off, nl |-> q.n1,
                             r |-> off + q.n1, nr |-> q.n2]),
           SelectFrame("W", [s |-> off + q.n12, l |-> off + q.n12, nl |-> q.n3,
                             r |-> off + q.n123, nr |-> q.n4]) >>

\* GB_merge_select_1 (A_0, W_1st0, n12, W_3rd0, n34)
FinalMerge(off, n) ==
    LET q == Quarters(n)
    IN  [s |-> off, l |-> off, nl |-> q.n12, r |-> off + q.n12, nr |-> q.n34]

\* ----------------------------------------------------------------- actions
Unchanged_call ==
    UNCHANGED <<A0, nthreads, ompTasks, callerThreads, pc, regions, team, arg, ret>>

\* a thread takes up a spawned task
TaskStart(t) ==
    /\ tasks[t].st = "ready"
    /\ SlotFree
    /\ tasks' = [tasks EXCEPT ![t] =
                    IF @.kind = "select" THEN GB_merge_select_1(@)
                    ELSE [@ EXCEPT !.st = "run"]]
    /\ UNCHANGED <<A, W, spawned>>
    /\ Unchanged_call

\* GB_mergesort_1, n <= GB_BASECASE: GB_qsort_1a (A_0, n)
GB_mergesort_1_base(t) ==
    LET f == tasks[t]
        touched == Locs("A", f.off, f.n)
    IN  /\ f.kind = "sort" /\ f.st = "run"
        /\ f.n <= GB_BASECASE
        /\ A' = Store(A, f.off, GB_qsort_1a(Slice(A, f.off, f.n)))
        /\ tasks' = [tasks EXCEPT ![t] =
                        [f EXCEPT !.st = "done", !.rd = @ \cup touched,
                                  !.wr = @ \cup touched]]
        /\ UNCHANGED <<W, spawned>>
        /\ Unchanged_call

\* the split taken from n = GB_BASECASE on
GB_mergesort_1_split_ge(t) ==
    LET f == tasks[t]
    IN  /\ f.kind = "sort" /\ f.st = "run"
        /\ f.n >= GB_BASECASE
        /\ Depth(t) < MaxDepth
        /\ tasks' = Fork(t, [f EXCEPT !.st = "wait", !.ph = "quarters"],
                         QuarterTasks(f.off, f.n))
        /\ spawned' = spawned + 4
        /\ UNCHANGED <<A, W>>
        /\ Unchanged_call

\* GB_mergesort_1, n > GB_BASECASE: the four quarter tasks, GB_TASK_WAIT
GB_mergesort_1_split(t) ==
    LET f == tasks[t]
    IN  /\ f.kind = "sort" /\ f.st = "run"
        /\ f.n > GB_BASECASE
        /\ Depth(t) < MaxDepth
        /\ tasks' = Fork(t, [f EXCEPT !.st = "wait", !.ph = "quarters"],
                         QuarterTasks(f.off, f.n))
        /\ spawned' = spawned + 4
        /\ UNCHANGED <<A, W>>
        /\ Unchanged_call

\* the pair merges spawned without the GB_TASK_WAIT for the quarters
GB_mergesort_1_pairs_nowait(t) ==
    LET f == tasks[t]
    IN  /\ f.kind = "sort" /\ f.ph = "quarters"
        /\ f.st = "wait"
        /\ tasks' = Fork(t, [Joined(t) EXCEPT !.ph = "pairs"], PairTasks(f.off, f.n))
        /\ spawned' = spawned + 2
        /\ UNCHANGED <<A, W>>
        /\ Unchanged_call

\* past the first GB_TASK_WAIT: the two pair-merge tasks, GB_TASK_WAIT
GB_mergesort_1_pairs(t) ==
    LET f == tasks[t]
    IN  /\ f.kind = "sort" /\ f.ph = "quarters"
        /\ Joinable(t)
        /\ tasks' = Fork(t, [Joined(t) EXCEPT !.ph = "pairs"], PairTasks(f.off, f.n))
        /\ spawned' = spawned + 2
        /\ UNCHANGED <<A, W>>
        /\ Unchanged_call

\* past the second GB_TASK_WAIT: the call of GB_merge_select_1 into A
GB_mergesort_1_final(t) ==
    LET f == tasks[t]
        m == FinalMerge(f.off, f.n)
        call == [Joined(t) EXCEPT !.ph = "-", !.dst = "A", !.s = m.s, !.l = m.l,
                                  !.nl = m.nl, !.r = m.r, !.nr = m.nr]
    IN  /\ f.kind = "sort" /\ f.ph = "pairs"
        /\ Joinable(t)
        /\ tasks' = Fork(t, GB_merge_select_1(call), <<>>)
        /\ UNCHANGED <<A, W, spawned>>
        /\ Unchanged_call

\* GB_merge_sequential_1 (S_0, Left_0, nleft, Right_0, nright)
SequentialMerge(t) ==
    LET f == tasks[t]
        in == Mem(Src(f.dst))
        out == GB_merge_sequential_1(Slice(in, f.l, f.nl), Slice(in, f.r, f.nr))
    IN  /\ f.kind = "seq" /\ f.st = "run"
        /\ IF f.dst = "A"
           THEN A' = Store(A, f.s, out) /\ W' = W
           ELSE W' = Store(W, f.s, out) /\ A' = A
        /\ tasks' = [tasks EXCEPT ![t] =
                [f EXCEPT !.st = "done",
                          !.rd = @ \cup Locs(Src(f.dst), f.l, f.nl)
                                   \cup Locs(Src(f.dst), f.r, f.nr),
                          !.wr = @ \cup Locs(f.dst, f.s, f.nl + f.nr)]]
        /\ UNCHANGED spawned
        /\ Unchanged_call

\* What Bigger_0 [nhalf] reads: the entry, or anything when Bigger is empty
\* and the read is past its end.
PivotRead(f) ==
    LET nhalf == f.nl \div 2
    IN  IF nhalf < f.nl THEN {At(Mem(Src(f.dst)), f.l + nhalf)} ELSE Values

\* GB_merge_parallel_1: the pivot search, the two sub-merge tasks, GB_TASK_WAIT
GB_merge_parallel_1(t) ==
    LET f == tasks[t]
        in == Mem(Src(f.dst))
        nhalf == f.nl \div 2
    IN  /\ f.kind = "par" /\ f.st = "run"
        /\ Depth(t) < MaxDepth
        /\ \E Pivot \in PivotRead(f) :
             LET k == PivotSearch(Slice(in, f.r, f.nr), Pivot)
                 m == ParallelSplit(f.s, f.l, f.nl, f.r, f.nr, k.pleft)
                 read == (IF nhalf < f.nl THEN {Loc(Src(f.dst), f.l + nhalf)} ELSE {})
                         \cup {Loc(Src(f.dst), f.r + i) : i \in k.probes}
             IN  tasks' = Fork(t, [f EXCEPT !.st = "wait", !.ph = "merges",
                                            !.rd = @ \cup read],
                               << SelectFrame(f.dst, m[1]), SelectFrame(f.dst, m[2]) >>)
        /\ spawned' = spawned + 2
        /\ UNCHANGED <<A, W>>
        /\ Unchanged_call

\* GB_merge_parallel_1 past its GB_TASK_WAIT
GB_merge_parallel_1_join(t) ==
    /\ tasks[t].kind = "par" /\ tasks[t].ph = "merges"
    /\ Joinable(t)
    /\ tasks' = Fork(t, [Joined(t) EXCEPT !.st = "done"], <<>>)
    /\ UNCHANGED <<A, W, spawned>>
    /\ Unchanged_call

\* ------------------------------------------------------------- GB_msort_1
Unchanged_args == UNCHANGED <<A0, nthreads, ompTasks, callerThreads, arg, ret>>

\* the sequential path copying A into W before it sorts
GB_msort_1_sequential_scratch ==
    /\ pc = "call"
    /\ ~(GB_MSORT_NTHREADS(nthreads) > 1)
    /\ W' = A
    /\ A' = GB_qsort_1a(A)
    /\ pc' = "returned"
    /\ UNCHANGED <<regions, team, spawned, tasks>>
    /\ Unchanged_args

\* nthreads <= 1: GB_qsort_1a (A_0, n)
GB_msort_1_sequential ==
    /\ pc = "call"
    /\ ~(GB_MSORT_NTHREADS(nthreads) > 1)
    /\ A' = GB_qsort_1a(A)
    /\ pc' = "returned"
    /\ UNCHANGED <<W, regions, team, spawned, tasks>>
    /\ Unchanged_args

\* the nested path opening a region of its own
GB_msort_1_nested_region ==
    /\ pc = "call"
    /\ GB_MSORT_NTHREADS(nthreads) > 1
    /\ callerThreads > 1
    /\ regions' = regions + 1
    /\ tasks' = (Root :> SortFrame("run", 0, Len(A)))
    /\ team' = GB_MSORT_NTHREADS(nthreads)
    /\ pc' = "sorting"
    /\ UNCHANGED <<A, W, spawned>>
    /\ Unchanged_args

\* already in a parallel region: GB_mergesort_1 (A_0, W_0, n)
GB_msort_1_nested ==
    /\ pc = "call"
    /\ GB_MSORT_NTHREADS(nthreads) > 1
    /\ callerThreads > 1
    /\ tasks' = (Root :> SortFrame("run", 0, Len(A)))
    /\ team' = callerThreads
    /\ pc' = "sorting"
    /\ UNCHANGED <<A, W, regions, spawned>>
    /\ Unchanged_args

\* GB_TASK_MASTER (nthreads) GB_mergesort_1 (A_0, W_0, n)
GB_msort_1_master ==
    /\ pc = "call"
    /\ GB_MSORT_NTHREADS(nthreads) > 1
    /\ ~(callerThreads > 1)
    /\ regions' = regions + 1
    /\ team' = GB_MSORT_NTHREADS(nthreads)
    /\ tasks' = (Root :> SortFrame("run", 0, Len(A)))
    /\ pc' = "sorting"
    /\ UNCHANGED <<A, W, spawned>>
    /\ Unchanged_args

\* GB_mergesort_1 has returned to GB_msort_1, which returns
GB_msort_1_return ==
    /\ pc = "sorting"
    /\ tasks[Root].st = "done"
    /\ pc' = "returned"
    /\ tasks' = <<>>
    /\ UNCHANGED <<A, W, regions, team, spawned>>
    /\ Unchanged_args

\* ---------------------------------------------------------- specification
\* An array long enough for one quarter to be split again.
DeepInput == [i \in 1..(4 * GB_BASECASE + 1) |-> IF i % 3 = 0 THEN 0 ELSE 1]

InitCall ==
    /\ W = [i \in 1..Len(A) |-> Garbage]
    /\ A0 = A
    /\ pc = "call"
    /\ regions = 0
    /\ team = 0
    /\ spawned = 0
    /\ tasks = <<>>
    /\ arg = <<>>
    /\ ret = <<>>

Init ==
    /\ \/ /\ \E n \in 0..MaxN : A \in [1..n -> Values]
          /\ nthreads \in 0..MaxThreads
          /\ ompTasks \in BOOLEAN
          /\ callerThreads \in 1..2
       \/ /\ A = DeepInput
          /\ nthreads = 2
          /\ ompTasks = TRUE
          /\ callerThreads = 1
    /\ InitCall

Next ==
    \/ GB_msort_1_sequential
    \/ GB_msort_1_nested
    \/ GB_msort_1_master
    \/ GB_msort_1_return
    \/ \E t \in DOMAIN tasks : TaskStart(t)
    \/ \E t \in DOMAIN tasks : GB_mergesort_1_base(t)
    \/ \E t \in DOMAIN tasks : GB_mergesort_1_split(t)
    \/ \E t \in DOMAIN tasks : GB_mergesort_1_pairs(t)
    \/ \E t \in DOMAIN tasks : GB_mergesort_1_final(t)
    \/ \E t \in DOMAIN tasks : SequentialMerge(t)
    \/ \E t \in DOMAIN tasks : GB_merge_parallel_1(t)
    \/ \E t \in DOMAIN tasks : GB_merge_parallel_1_join(t)

Spec == Init /\ [][Next]_vars

\* The same calls on the arrays of keys 0 and 1 alone, with the scheduler
\* running a task whenever one can run.
FairInit ==
    /\ \E n \in 0..MaxN : A \in [1..n -> 0..1]
    /\ nthreads \in 0..MaxThreads
    /\ ompTasks \in BOOLEAN
    /\ callerThreads \in 1..2
    /\ InitCall

FairSpec == FairInit /\ [][Next]_vars /\ WF_vars(Next)

\* --------------------------------------------- the merges on their own
\* Left and Right are two sorted runs laid out one after the other in A; the
\* merge (the sequential one, or the parallel one with the longer run as
\* Bigger) writes W, in a team of two threads.
MergeRoot(fn, nleft, nright) ==
    LET m == IF fn = "par" /\ nleft < nright
             THEN [s |-> 0, l |-> nleft, nl |-> nright, r |-> 0, nr |-> nleft]
             ELSE [s |-> 0, l |-> 0, nl |-> nleft, r |-> nleft, nr |-> nright]
    IN  Frame(fn, "run", 0, 0, "W", m)

MergeInit ==
    /\ \E Left \in SortedRuns(MaxRun), Right \in SortedRuns(MaxRun), fn \in {"seq", "par"} :
         /\ A = Left \o Right
         /\ arg = [fn |-> fn, nleft |-> Len(Left), nright |-> Len(Right)]
         /\ tasks = (Root :> MergeRoot(fn, Len(Left), Len(Right)))
    /\ W = [i \in 1..Len(A) |-> Garbage]
    /\ A0 = A
    /\ nthreads = 2
    /\ ompTasks = TRUE
    /\ callerThreads = 2
    /\ pc = "merging"
    /\ regions = 0
    /\ team = 2
    /\ spawned = 0
    /\ ret = <<>>

MergeReturn ==
    /\ pc = "merging"
    /\ tasks[Root].st = "done"
    /\ pc' = "merged"
    /\ ret' = W
    /\ tasks' = <<>>
    /\ UNCHANGED <<A, W, A0, nthreads, ompTasks, callerThreads, regions, team,
                   spawned, arg>>

MergeNext ==
    \/ MergeReturn
    \/ \E t \in DOMAIN tasks : TaskStart(t)
    \/ \E t \in DOMAIN tasks : SequentialMerge(t)
    \/ \E t \in DOMAIN tasks : GB_merge_parallel_1(t)
    \/ \E t \in DOMAIN tasks : GB_merge_parallel_1_join(t)

MergeSpec == MergeInit /\ [][MergeNext]_vars

\* ------------------------------------ the pure functions on their own
InitIdle ==
    /\ A = <<>> /\ W = <<>> /\ A0 = <<>>
    /\ nthreads = 0 /\ ompTasks = FALSE /\ callerThreads = 1
    /\ pc = "call" /\ regions = 0 /\ team = 0 /\ spawned = 0
    /\ tasks = <<>>
    /\ ret = <<>>

Unchanged_idle ==
    UNCHANGED <<A, W, A0, nthreads, ompTasks, callerThreads, regions, team,
                spawned, tasks, arg>>

\* the pivot search of GB_merge_parallel_1 on a sorted run and a pivot
PivotInit ==
    /\ arg \in [Smaller : SortedRuns(MaxSmaller), Pivot : Keys]
    /\ InitIdle

PivotCall ==
    /\ pc = "call"
    /\ ret' = PivotSearch(arg.Smaller, arg.Pivot)
    /\ pc' = "returned"
    /\ Unchanged_idle

PivotSpec == PivotInit /\ [][PivotCall]_vars

\* the quarter sizes of GB_mergesort_1 on a length
QuartersInit ==
    /\ arg \in 0..MaxQuarters
    /\ InitIdle

QuartersCall ==
    /\ pc = "call"
    /\ ret' = Quarters(arg)
    /\ pc' = "returned"
    /\ Unchanged_idle

QuartersSpec == QuartersInit /\ [][QuartersCall]_vars

\* ----------------------------- GB_merge_sequential_1, one iteration at a time
\* arg holds Left and Right; ret holds S [0..p-1] as written so far, pleft
\* and pright, and for each entry of S the run it was taken from.
SeqInit ==
    /\ arg \in [Left : SortedRuns(MaxRun), Right : SortedRuns(MaxRun)]
    /\ ret = [S |-> <<>>, pleft |-> 0, pright |-> 0, from |-> <<>>]
    /\ pc = "loop"
    /\ A = <<>> /\ W = <<>> /\ A0 = <<>>
    /\ nthreads = 0 /\ ompTasks = FALSE /\ callerThreads = 1
    /\ regions = 0 /\ team = 0 /\ spawned = 0
    /\ tasks = <<>>

\* the iteration that takes Left's entry when it is not above Right's
SeqStep_le ==
    /\ pc = "loop"
    /\ ret.pleft < Len(arg.Left) /\ ret.pright < Len(arg.Right)
    /\ IF At(arg.Left, ret.pleft) <= At(arg.Right, ret.pright)
       THEN ret' = [ret EXCEPT !.S = Append(@, At(arg.Left, ret.pleft)),
                               !.pleft = @ + 1, !.from = Append(@, "L")]
       ELSE ret' = [ret EXCEPT !.S = Append(@, At(arg.Right, ret.pright)),
                               !.pright = @ + 1, !.from = Append(@, "R")]
    /\ UNCHANGED pc
    /\ Unchanged_idle

\* one iteration of the for loop
SeqStep ==
    /\ pc = "loop"
    /\ ret.pleft < Len(arg.Left) /\ ret.pright < Len(arg.Right)
    /\ IF GB_lt_1(arg.Left, ret.pleft, arg.Right, ret.pright)
       THEN ret' = [ret EXCEPT !.S = Append(@, At(arg.Left, ret.pleft)),
                               !.pleft = @ + 1, !.from = Append(@, "L")]
       ELSE ret' = [ret EXCEPT !.S = Append(@, At(arg.Right, ret.pright)),
                               !.pright = @ + 1, !.from = Append(@, "R")]
    /\ UNCHANGED pc
    /\ Unchanged_idle

\* past the loop: the memcpy of what is left of Left, or else of Right
SeqCopy ==
    LET nl == Len(arg.Left) - ret.pleft
        nr == Len(arg.Right) - ret.pright
    IN  /\ pc = "loop"
        /\ ~(ret.pleft < Len(arg.Left) /\ ret.pright < Len(arg.Right))
        /\ ret' = IF ret.pleft < Len(arg.Left)
                  THEN [ret EXCEPT !.S = @ \o Slice(arg.Left, ret.pleft, nl),
                                   !.from = @ \o [i \in 1..nl |-> "L"]]
                  ELSE IF ret.pright < Len(arg.Right)
                  THEN [ret EXCEPT !.S = @ \o Slice(arg.Right, ret.pright, nr),
                                   !.from = @ \o [i \in 1..nr |-> "R"]]
                  ELSE ret
        /\ pc' = "returned"
        /\ Unchanged_idle

SeqNext ==
    \/ SeqStep
    \/ SeqCopy

SeqSpec == SeqInit /\ [][SeqNext]_vars

\* ------------------- GB_merge_select_1 with the base-case size as a parameter
\* which merge GB_merge_select_1 calls when GB_BASECASE is basecase
SelectWith(basecase, nleft, nright) ==
    IF nleft + nright < basecase THEN "seq"
    ELSE IF nleft >= nright THEN "par"
    ELSE "par_swapped"

\* arg holds the base-case size and two sorted runs
DispatchInit ==
    /\ arg \in [basecase : 1..MaxThreshold,
                Left : SortedRuns(MaxRun), Right : SortedRuns(MaxRun)]
    /\ InitIdle

\* GB_merge_select_1 (S, Left, nleft, Right, nright) up to the two GB_TASK of
\* the parallel merge it calls: the lengths of the runs each sub-merge is given
DispatchCall ==
    LET fn == SelectWith(arg.basecase, Len(arg.Left), Len(arg.Right))
        Bigger == IF fn = "par_swapped" THEN arg.Right ELSE arg.Left
        Smaller == IF fn = "par_swapped" THEN arg.Left ELSE arg.Right
        nbigger == Len(Bigger)
        nsmaller == Len(Smaller)
        nhalf == nbigger \div 2
        k == PivotSearch(Smaller, At(Bigger, nhalf))
        m == ParallelSplit(0, 0, nbigger, nbigger, nsmaller, k.pleft)
    IN  /\ pc = "call"
        /\ ret' = IF fn = "seq"
                  THEN [fn |-> fn]
                  ELSE [fn |-> fn, nbigger |-> nbigger, nsmaller |-> nsmaller,
                        nhalf |-> nhalf, pleft |-> k.pleft,
                        n_task0 |-> m[1].nl + m[1].nr,
                        n_task1 |-> m[2].nl + m[2].nr]
        /\ pc' = "returned"
        /\ Unchanged_idle

DispatchSpec == DispatchInit /\ [][DispatchCall]_vars

Returned == pc = "returned"
NT == GB_MSORT_NTHREADS(nthreads)

\* ------------------------------------------------------------------ claims
\* the pairs of live frames neither of which is the other's ancestor
Unrelated(t, u) == t < u /\ ~IsAncestor(t, u)
Siblings(t, u) == t < u /\ Parent(t) = Parent(u)
Conflict(w1, r1, w2, r2) == w1 \cap (w2 \cup r2) # {} \/ w2 \cap r1 # {}

\* what a frame is handed to write (a GB_mergesort_1 its range of A and of W,
\* a merge its output), and to read without writing (a merge its two inputs)
WriteRange(f) ==
    Locs("A", f.off, f.n) \cup Locs("W", f.off, f.n) \cup Locs(f.dst, f.s, f.nl + f.nr)
ReadRange(f) ==
    Locs(Src(f.dst), f.l, f.nl) \cup Locs(Src(f.dst), f.r, f.nr)

\* C1: when GB_msort_1 returns, A is in non-decreasing order, whatever the
\* array, the thread counts, the caller's context and the schedule were.
Sortedness == Returned => IsSorted(A)

Sortedness_witness ==
    /\ Returned /\ spawned > 0 /\ callerThreads > 1
    /\ ~IsSorted(A0)

\* C2: when GB_msort_1 returns, A holds the values it held at the call, each
\* as many times.
PermutationPreserved == Returned => SameBag(A, A0)

PermutationPreserved_witness ==
    /\ Returned /\ spawned > 0 /\ regions = 1
    /\ A # A0
    /\ Cardinality(Range(A0)) < Len(A0)

\* C3: no entry of A or W is written by one task and read or written by a
\* task running concurrently with it (neither is the other's ancestor), and
\* tasks spawned at the same fork are handed disjoint ranges to write, none
\* of which another of them reads, and keep to what they are handed.
RaceFreedom ==
    /\ \A t, u \in DOMAIN tasks :
         /\ Unrelated(t, u) =>
               ~Conflict(tasks[t].wr, tasks[t].rd, tasks[u].wr, tasks[u].rd)
         /\ Siblings(t, u) =>
               ~Conflict(WriteRange(tasks[t]), ReadRange(tasks[t]),
                         WriteRange(tasks[u]), ReadRange(tasks[u]))
    /\ \A t \in DOMAIN tasks :
         /\ tasks[t].wr \subseteq WriteRange(tasks[t])
         /\ tasks[t].rd \subseteq WriteRange(tasks[t]) \cup ReadRange(tasks[t])

\* two tasks two levels down with different parents, both on a thread, and
\* two concurrent tasks that have written
RaceFreedom_witness ==
    \E t, u \in DOMAIN tasks :
        /\ Unrelated(t, u)
        /\ tasks[t].st = "run" /\ tasks[u].st = "run"
        /\ Parent(t) # Parent(u)
        /\ Depth(t) >= 2 /\ Depth(u) >= 2
        /\ \E v, w \in DOMAIN tasks :
              Unrelated(v, w) /\ tasks[v].wr # {} /\ tasks[w].wr # {}

\* C4: under fair scheduling every call of GB_msort_1 returns, with every
\* task it spawned completed and joined.
Termination == <>(Returned /\ tasks = <<>>)

Termination_witness ==
    /\ Returned /\ tasks = <<>>
    /\ callerThreads > 1 /\ regions = 0
    /\ spawned > 6

\* C5: the array GB_msort_1 leaves is a function of the array it was given
\* alone: the one the single-threaded path (GB_qsort_1a) leaves, whatever the
\* thread counts and the schedule were.
ScheduleIndependence == Returned => A = GB_qsort_1a(A0)

ScheduleIndependence_witness ==
    /\ Returned /\ A0 = DeepInput
    /\ spawned > 12

\* C7: with a thread count of one or less, GB_msort_1 sorts A with
\* GB_qsort_1a alone: no task, no parallel region, W as it was.
SingleThreadFrame ==
    ~(NT > 1) =>
        /\ spawned = 0 /\ regions = 0 /\ tasks = <<>>
        /\ W = [i \in 1..Len(A0) |-> Garbage]
        /\ pc \in {"call", "returned"}
        /\ Returned => A = GB_qsort_1a(A0)

SingleThreadFrame_witness ==
    /\ Returned /\ ~(NT > 1) /\ nthreads > 1
    /\ Len(A) > GB_BASECASE /\ A # A0

\* C8: with a thread count above one, GB_msort_1 runs GB_mergesort_1
\* directly when the caller is in a parallel region, and otherwise inside the
\* one region it opens, of that many threads; no call opens two regions.
ContextDiscipline ==
    /\ regions <= 1
    /\ (NT > 1 /\ pc # "call") =>
          /\ callerThreads > 1 => regions = 0 /\ team = callerThreads
          /\ ~(callerThreads > 1) => regions = 1 /\ team = NT
          /\ pc = "sorting" => Root \in DOMAIN tasks
          /\ spawned > 0 \/ Len(A) <= GB_BASECASE \/ tasks[Root].st = "run"

ContextDiscipline_witness ==
    /\ pc = "sorting" /\ regions = 1 /\ team = nthreads
    /\ tasks[Root].kind = "par" /\ tasks[Root].st = "wait"

\* C6: on two sorted runs, the sequential merge and the parallel merge (the
\* longer run as Bigger) each write all nleft + nright entries of the output,
\* in ascending order, the values of the two runs each as many times as the
\* runs hold it; and the two write the same output.
MergeEquivalence ==
    pc = "merged" =>
        /\ Len(ret) = arg.nleft + arg.nright
        /\ Garbage \notin Range(ret)
        /\ IsSorted(ret)
        /\ SameBag(ret, A)
        /\ ret = GB_merge_sequential_1(Slice(A, 0, arg.nleft),
                                       Slice(A, arg.nleft, arg.nright))

MergeEquivalence_witness ==
    /\ pc = "merged" /\ arg.fn = "par"
    /\ arg.nleft < arg.nright
    /\ spawned >= 4
    /\ ret # A
    /\ Range(Slice(A, 0, arg.nleft)) \cap Range(Slice(A, arg.nleft, arg.nright)) # {}

\* C9: the quarter sizes add up to n, each is within 1 of n/4, and the
\* quarters starting at 0, n1, n12 and n12+n3 follow one another from 0 to n.
PartitionSizeLaw ==
    (pc = "returned") =>
        /\ ret.n1 + ret.n2 + ret.n3 + ret.n4 = arg
        /\ \A k \in {ret.n1, ret.n2, ret.n3, ret.n4} :
              k >= 0 /\ 4 * k - arg <= 4 /\ arg - 4 * k <= 4
        /\ 0 + ret.n1 = ret.n1
        /\ ret.n1 + ret.n2 = ret.n12
        /\ ret.n12 + ret.n3 = ret.n123
        /\ ret.n123 + ret.n4 = arg

PartitionSizeLaw_witness ==
    /\ pc = "returned" /\ arg > GB_BASECASE /\ arg % 4 = 3
    /\ ret.n1 < ret.n4

\* C10: when Smaller holds the pivot at most once, the pleft the search and
\* its adjustment leave is in 0..nsmaller, every entry before it is below
\* the pivot and every entry from it on is at or above the pivot.
PivotSearchCorrect ==
    (pc = "returned" /\ Count(arg.Smaller, arg.Pivot) <= 1) =>
        /\ ret.pleft \in 0..Len(arg.Smaller)
        /\ \A i \in 0..(Len(arg.Smaller) - 1) :
              /\ i < ret.pleft => At(arg.Smaller, i) < arg.Pivot
              /\ i >= ret.pleft => At(arg.Smaller, i) >= arg.Pivot

PivotSearchCorrect_witness ==
    /\ pc = "returned" /\ Count(arg.Smaller, arg.Pivot) = 1
    /\ Len(arg.Smaller) = MaxSmaller
    /\ ret.pleft > 1 /\ ret.pleft < Len(arg.Smaller) - 1

\* the entries of W a frame, and the tasks it has joined, have read
ReadOfW(f) == {x \in f.rd : x < 0}

\* C11: every entry of W that a task has read was written earlier in the
\* call (it no longer holds what W held at the call), by a pair-merge task
\* that the reader, or the task the reader descends from, had joined.
WriteBeforeRead ==
    \A t \in DOMAIN tasks : \A x \in ReadOfW(tasks[t]) :
        /\ At(W, -x - 1) # Garbage
        /\ \E u \in DOMAIN tasks :
              (u = t \/ IsAncestor(u, t)) /\ x \in tasks[u].wr

\* the final merge of a quarter that was itself split has read its W
WriteBeforeRead_witness ==
    \E t \in DOMAIN tasks :
        /\ Depth(t) >= 1 /\ tasks[t].dst = "A"
        /\ tasks[t].kind \in {"seq", "par"}
        /\ ReadOfW(tasks[t]) # {}
        /\ tasks[Root].ph = "quarters"

\* the indices off .. off+n-1 of an array
Idx(off, n) == off..(off + n - 1)

\* C12: while a parallel merge waits for its two sub-merges, with nhalf =
\* nbigger/2 and pleft what the pivot search left for Bigger [nhalf]:
\* sub-merge 1 has Bigger [0..nhalf) and Smaller [0..pleft) and the output
\* S [0..nhalf+pleft), sub-merge 2 has the rest of each; the two outputs are
\* disjoint and make up S [0..nbigger+nsmaller); and no entry of sub-merge
\* 1's inputs is above an entry of sub-merge 2's, duplicates of the pivot or not.
SplitInvariant ==
    \A t \in DOMAIN tasks :
        (tasks[t].kind = "par" /\ tasks[t].st = "wait") =>
            LET f == tasks[t]
                in == Mem(Src(f.dst))
                c1 == tasks[Child(t, 1)]
                c2 == tasks[Child(t, 2)]
                nhalf == f.nl \div 2
                pleft == c1.nl + c1.nr - nhalf
                in1 == Idx(f.l, nhalf) \cup Idx(f.r, pleft)
                in2 == Idx(f.l + nhalf, f.nl - nhalf) \cup Idx(f.r + pleft, f.nr - pleft)
                out1 == Idx(c1.s, c1.nl + c1.nr)
                out2 == Idx(c2.s, c2.nl + c2.nr)
            IN  /\ pleft \in 0..f.nr
                /\ f.nl >= 1 =>
                      pleft = PivotSearch(Slice(in, f.r, f.nr), At(in, f.l + nhalf)).pleft
                /\ Idx(c1.l, c1.nl) \cup Idx(c1.r, c1.nr) = in1
                /\ Idx(c2.l, c2.nl) \cup Idx(c2.r, c2.nr) = in2
                /\ c1.nl + c1.nr = nhalf + pleft
                /\ c2.nl + c2.nr = (f.nl - nhalf) + (f.nr - pleft)
                /\ c1.dst = f.dst /\ c2.dst = f.dst
                /\ out1 = Idx(f.s, nhalf + pleft)
                /\ out2 = Idx(f.s + nhalf + pleft, f.nl + f.nr - nhalf - pleft)
                /\ out1 \cap out2 = {}
                /\ out1 \cup out2 = Idx(f.s, f.nl + f.nr)
                /\ \A i \in in1 : \A j \in in2 : At(in, i) <= At(in, j)

\* a split at a pivot that Bigger and Smaller each hold more than once, with
\* entries of Smaller on both sides
SplitInvariant_witness ==
    /\ pc = "merging" /\ tasks[Root].kind = "par" /\ tasks[Root].st = "wait"
    /\ LET f == tasks[Root]
           Pivot == At(A, f.l + f.nl \div 2)
       IN  /\ Count(Slice(A, f.r, f.nr), Pivot) >= 2
           /\ Count(Slice(A, f.l, f.nl), Pivot) >= 2
           /\ tasks[Child(Root, 1)].nl + tasks[Child(Root, 1)].nr > f.nl \div 2
           /\ tasks[Child(Root, 2)].nr >= 2

\* the arguments of a merge: output, first run, its length, second run, its length
MergeArgs(f) == <<f.dst, f.s, f.l, f.nl, f.r, f.nr>>
Swapped(m) == <<m.dst, m.s, m.r, m.nr, m.l, m.nl>>

\* what GB_merge_select_1 (m) is said to call, against the frame g it became
Routed(m, g) ==
    /\ g.kind \in {"seq", "par"}
    /\ g.kind = "seq" <=> m.nl + m.nr < GB_BASECASE
    /\ g.kind = "seq" => MergeArgs(g) = MergeArgs(m)
    /\ (g.kind = "par" /\ m.nl >= m.nr) => MergeArgs(g) = MergeArgs(m)
    /\ (g.kind = "par" /\ m.nl < m.nr) => MergeArgs(g) = Swapped(m)

\* C13: every GB_merge_select_1 of a sort call (a pair merge, a final merge,
\* a sub-merge of a parallel merge) calls the sequential merge exactly when
\* nleft + nright is below GB_BASECASE and otherwise the parallel merge with
\* the longer run first, Left first when they are equal; so nbigger >=
\* nsmaller in every parallel merge.
DispatchRouting ==
    [][ /\ \A t \in DOMAIN tasks \cap DOMAIN tasks' :
             /\ (tasks[t].kind = "select" /\ tasks'[t].kind # "select") =>
                    Routed(tasks[t], tasks'[t])
             /\ (tasks[t].ph = "pairs" /\ tasks'[t].ph # "pairs") =>
                    Routed([dst |-> "A"] @@ FinalMerge(tasks[t].off, tasks[t].n),
                           tasks'[t])
        /\ \A t \in DOMAIN tasks' :
             tasks'[t].kind = "par" => tasks'[t].nl >= tasks'[t].nr ]_vars

\* both pair merges of one sort are parallel merges: the first of two runs
\* of one length, Left passed first, the second with Right passed first
DispatchRouting_witness ==
    \E t \in DOMAIN tasks :
        /\ tasks[t].kind = "sort" /\ tasks[t].ph = "pairs"
        /\ LET f == tasks[t]
               q == Quarters(f.n)
               c1 == tasks[Child(t, 1)]
               c2 == tasks[Child(t, 2)]
           IN  /\ c1.kind = "par" /\ c1.nl = c1.nr /\ c1.l = f.off
               /\ c2.kind = "par" /\ c2.nl > c2.nr /\ c2.l = f.off + q.n123

\* the first k tasks that t spawned at its last fork are live and complete
Completed(t, k) ==
    \A i \in 1..k : Child(t, i) \in DOMAIN tasks /\ tasks[Child(t, i)].st = "done"

\* C14: a GB_mergesort_1 passes its first GB_TASK_WAIT (and spawns the pair
\* merges) only with its four quarter sorts complete, and its second (and
\* calls the final merge) only with both pair merges complete; a parallel
\* merge passes its GB_TASK_WAIT only with both sub-merges complete; and
\* every live task's spawner is still waiting at the join, so that a task
\* that has returned has no task of its own left.
PhaseOrdering ==
    [][ /\ \A t \in DOMAIN tasks :
             LET f == tasks[t]
                 gone == t \notin DOMAIN tasks'
             IN  /\ (f.ph = "quarters" /\ (gone \/ tasks'[t].ph # "quarters")) =>
                        /\ Completed(t, 4)
                        /\ ~gone /\ tasks'[t].ph = "pairs"
                 /\ (f.ph = "pairs" /\ (gone \/ tasks'[t].ph # "pairs")) =>
                        /\ Completed(t, 2)
                        /\ ~gone /\ tasks'[t].kind \in {"seq", "par"}
                 /\ (f.ph = "merges" /\ f.st = "wait" /\ (gone \/ tasks'[t].st # "wait")) =>
                        /\ Completed(t, 2)
                        /\ ~gone /\ tasks'[t].st = "done"
        /\ \A c \in DOMAIN tasks' \ {Root} :
             /\ Parent(c) \in DOMAIN tasks'
             /\ tasks'[Parent(c)].st = "wait"
             /\ tasks'[Parent(c)].ph = "pairs" => tasks'[c].kind # "sort" ]_vars

\* both pair merges of the outermost sort are parallel merges that have
\* returned, and the sort is still at its second GB_TASK_WAIT
PhaseOrdering_witness ==
    /\ pc = "sorting" /\ tasks[Root].ph = "pairs"
    /\ Completed(Root, 2)
    /\ tasks[Child(Root, 1)].kind = "par" /\ tasks[Child(Root, 2)].kind = "par"
    /\ spawned >= 4 + 6 + 2 + 4

\* a GB_mergesort_1 that returned from GB_qsort_1a, one that has split its
\* range, and one that is in, or has returned from, its final merge
ByBaseCase(f) == f.kind = "sort" /\ f.st = "done"
Decomposed(f) == f.ph \in {"quarters", "pairs"} \/ (f.kind \in {"seq", "par"} /\ f.n > 0)
FinalMergeDone(f) == f.kind \in {"seq", "par"} /\ f.n > 0 /\ f.st = "done"

\* what the two ways of sorting a range leave in the frame's logs: the base
\* case has touched its range of A and nothing of W; the decomposition has
\* written all of its range of W (the pair merges) and of A (the final merge)
BaseCaseFootprint(f) ==
    /\ ByBaseCase(f) =>
          f.wr = Locs("A", f.off, f.n) /\ f.rd = Locs("A", f.off, f.n)
    /\ FinalMergeDone(f) =>
          f.wr = Locs("A", f.off, f.n) \cup Locs("W", f.off, f.n)

\* C15 as amended: GB_mergesort_1 on n entries sorts them with GB_qsort_1a
\* alone, touching nothing of W, exactly when n <= GB_BASECASE (n equal to
\* GB_BASECASE included); for every n > GB_BASECASE it splits the range in
\* four, merges the pairs into W and merges W back into A.
BaseCaseBoundary ==
    \A t \in DOMAIN tasks :
        /\ ByBaseCase(tasks[t]) => tasks[t].n <= GB_BASECASE
        /\ Decomposed(tasks[t]) => tasks[t].n > GB_BASECASE
        /\ BaseCaseFootprint(tasks[t])

\* a quarter of GB_BASECASE entries sorted by GB_qsort_1a next to a quarter
\* of GB_BASECASE + 1 entries that was split and merged
BaseCaseBoundary_witness ==
    \E t, u \in DOMAIN tasks :
        /\ Parent(t) = Root /\ Parent(u) = Root /\ t # Root /\ u # Root
        /\ ByBaseCase(tasks[t]) /\ tasks[t].n = GB_BASECASE
        /\ FinalMergeDone(tasks[u]) /\ tasks[u].n = GB_BASECASE + 1

\* C15 as stated: the base case exactly when n < GB_BASECASE; n equal to
\* GB_BASECASE is split.
BaseCaseBoundary_original ==
    \A t \in DOMAIN tasks :
        /\ ByBaseCase(tasks[t]) => tasks[t].n < GB_BASECASE
        /\ Decomposed(tasks[t]) => tasks[t].n >= GB_BASECASE
        /\ BaseCaseFootprint(tasks[t])

\* the entries of S taken from run x, in the order S has them
FromRun(S, from, x) ==
    LET idx == {i \in 1..Len(S) : from[i] = x}
    IN  [k \in 1..Cardinality(idx) |->
            S[CHOOSE i \in idx : Cardinality({j \in idx : j <= i}) = k]]

\* C16: each iteration of the sequential merge, both runs unexhausted, takes
\* Left's current entry if and only if it is strictly below Right's, and
\* Right's otherwise; when one run is exhausted the rest of the other is
\* copied as it is; so the entries of each run keep their order in S, and of
\* two equal keys the one from Right comes before the one from Left.
SequentialTieBreak ==
    [][ LET Left == arg.Left
            Right == arg.Right
            l == At(Left, ret.pleft)
            r == At(Right, ret.pright)
            out == ret'.S
        IN  /\ (pc = "loop" /\ pc' = "loop") =>
                  /\ ret.pleft < Len(Left) /\ ret.pright < Len(Right)
                  /\ l < r <=> ret'.pleft = ret.pleft + 1
                  /\ l < r => /\ out = Append(ret.S, l)
                              /\ ret'.pright = ret.pright
                  /\ ~(l < r) => /\ out = Append(ret.S, r)
                                 /\ ret'.pright = ret.pright + 1
                                 /\ ret'.pleft = ret.pleft
            /\ (pc = "loop" /\ pc' = "returned") =>
                  /\ ret.pleft = Len(Left) \/ ret.pright = Len(Right)
                  /\ out = ret.S \o Slice(Left, ret.pleft, Len(Left) - ret.pleft)
                                 \o Slice(Right, ret.pright, Len(Right) - ret.pright)
                  /\ FromRun(out, ret'.from, "L") = Left
                  /\ FromRun(out, ret'.from, "R") = Right
                  /\ \A i, j \in 1..Len(out) :
                        (i < j /\ ret'.from[i] = "L" /\ ret'.from[j] = "R") =>
                            out[i] < out[j]
                  /\ out = GB_merge_sequential_1(Left, Right) ]_vars

\* a merge of two runs with a key in common, entries taken from both in the
\* loop and two entries copied after it
SequentialTieBreak_witness ==
    /\ pc = "returned" /\ "from" \in DOMAIN ret
    /\ Range(arg.Left) \cap Range(arg.Right) # {}
    /\ ret.pleft >= 1 /\ ret.pright >= 1
    /\ Len(ret.S) - (ret.pleft + ret.pright) >= 2

\* each sub-merge of a parallel merge is given fewer entries than the merge
SubMergesSmaller ==
    /\ ret.n_task0 = ret.nhalf + ret.pleft
    /\ ret.n_task1 = (ret.nbigger - ret.nhalf) + (ret.nsmaller - ret.pleft)
    /\ ret.n_task0 < ret.nbigger + ret.nsmaller
    /\ ret.n_task1 < ret.nbigger + ret.nsmaller

\* C17 as amended: for every base-case size >= 3, each parallel merge that
\* GB_merge_select_1 calls (nleft + nright >= the base-case size, the longer
\* run first) gives each of its two sub-merges strictly fewer entries than
\* it was given, so the chain of merges cannot repeat a size.
MergeProgress ==
    (pc = "returned" /\ ret.fn # "seq" /\ arg.basecase >= 3) =>
        /\ ret.nbigger >= ret.nsmaller
        /\ SubMergesSmaller

\* the smallest parallel merge there is, all of Smaller going to the second
\* sub-merge
MergeProgress_witness ==
    /\ pc = "returned" /\ ret.fn = "par_swapped" /\ arg.basecase = 3
    /\ ret.nbigger = 2 /\ ret.nsmaller = 1
    /\ ret.pleft = 0 /\ ret.n_task1 = 2

\* C17 as stated: the same for every base-case size >= 1.
MergeProgress_original ==
    (pc = "returned" /\ ret.fn # "seq" /\ arg.basecase >= 1) =>
        /\ ret.nbigger >= ret.nsmaller
        /\ SubMergesSmaller

\* the entries off .. off+k-1 are entries of an array of n: 0 <= index < n
Inside(off, k, n) == k >= 0 /\ (k > 0 => off >= 0 /\ off + k <= n)

\* C18: every task of a sort call reads and writes inside the ranges it was
\* handed, which lie inside A [0..n-1] and W [0..n-1]; every parallel merge
\* has nbigger >= 1, so 0 <= nhalf < nbigger for the pivot; every entry of
\* Smaller the pivot search reads, in its loop or after it, is one of
\* Smaller [0..nsmaller-1], and none is read when Smaller is empty.
InBounds ==
    \A t \in DOMAIN tasks :
        LET f == tasks[t]
            in == Mem(Src(f.dst))
            nhalf == f.nl \div 2
            k == PivotSearch(Slice(in, f.r, f.nr), At(in, f.l + nhalf))
        IN  /\ Len(A) = Len(A0) /\ Len(W) = Len(A0)
            /\ Inside(f.off, f.n, Len(A0))
            /\ Inside(f.s, f.nl + f.nr, Len(A0))
            /\ Inside(f.l, f.nl, Len(A0)) /\ Inside(f.r, f.nr, Len(A0))
            /\ f.wr \subseteq WriteRange(f)
            /\ f.rd \subseteq WriteRange(f) \cup ReadRange(f)
            /\ f.kind = "par" =>
                  /\ f.nl >= 1 /\ 0 <= nhalf /\ nhalf < f.nl
                  /\ k.probes \subseteq 0..(f.nr - 1)
                  /\ f.nr = 0 => k.probes = {}
                  /\ k.pleft \in 0..f.nr
                  /\ f.st # "run" =>
                        {Loc(Src(f.dst), f.r + i) : i \in k.probes} \subseteq f.rd

\* a parallel merge below the outermost frame whose search read two entries
\* of Smaller, next to a frame handed the last entry of A
InBounds_witness ==
    \E t, u \in DOMAIN tasks :
        /\ tasks[t].kind = "par" /\ tasks[t].st = "wait" /\ Depth(t) >= 1
        /\ tasks[t].nr >= 2
        /\ Cardinality({i \in 0..(tasks[t].nr - 1) :
                           Loc(Src(tasks[t].dst), tasks[t].r + i) \in tasks[t].rd}) >= 2
        /\ Loc("A", Len(A0) - 1) \in WriteRange(tasks[u]) /\ Depth(u) >= 2

\* C19: on every sorted run Smaller and every pivot the binary search loop
\* ends, with pleft = pright or pleft = pright + 1 (the ASSERT after the
\* loop), and with pleft = pright + 1 exactly when Smaller is empty.
BinarySearchExit ==
    pc = "returned" =>
        LET pleft == ret.loop[1]
            pright == ret.loop[2]
        IN  /\ pleft = pright \/ pleft = pright + 1
            /\ pleft = pright + 1 <=> Len(arg.Smaller) = 0
            /\ Len(arg.Smaller) > 0 => pleft \in 0..(Len(arg.Smaller) - 1)
            /\ Cardinality(ret.probes) <= Len(arg.Smaller)

\* a search of a run of MaxSmaller entries that holds the pivot twice and
\* ends past the middle of the run
BinarySearchExit_witness ==
    /\ pc = "returned" /\ Len(arg.Smaller) = MaxSmaller
    /\ Count(arg.Smaller, arg.Pivot) = 2
    /\ ret.loop[1] = ret.loop[2] /\ 2 * ret.loop[1] >= MaxSmaller

\* C20: after the adjustment step of the pivot search, if the pivot was not
\* found, Smaller [0..pleft-1] < Pivot, Smaller [pleft..nsmaller-1] > Pivot
\* and pleft - 1 = pright.
PostAdjustment ==
    (pc = "returned" /\ ~ret.found) =>
        /\ \A i \in 0..(Len(arg.Smaller) - 1) :
              /\ i < ret.pleft => At(arg.Smaller, i) < arg.Pivot
              /\ i >= ret.pleft => At(arg.Smaller, i) > arg.Pivot
        /\ ret.pleft - 1 = ret.pright

====
